---- MODULE Spec2Model ----
(***************************************************************************)
(* Model of homework.py: the fitness tracker module.                       *)
(*                                                                         *)
(* Training objects are records, the class hierarchy is a dispatch on the  *)
(* record's cls field, and the entry-point loop (read_package, main,       *)
(* show_training_info, get_message, print) is a state machine that takes   *)
(* one step per call.                                                      *)
(*                                                                         *)
(* Numbers.  The program computes with Python floats.  The model computes  *)
(* the same expressions, in the same order, over exact non-negative        *)
(* rationals (a pair of arbitrary-precision naturals), with the decimal    *)
(* literals of the source taken at their written value (0.65 is 65/100).   *)
(* The binary rounding error of a float operation (relative 2^-53) is not  *)
(* modelled.  The '.3f' conversion is modelled by what it does: the value  *)
(* is rounded to the nearest multiple of 1/1000, ties to even, and         *)
(* written as decimal digits, a point, and exactly three digits.           *)
(***************************************************************************)
EXTENDS Integers, Sequences, FiniteSets, TLC

(***************************************************************************)
(* Arbitrary-precision naturals: a sequence of limbs in base Base, least   *)
(* significant first, without leading zero limbs (zero is the empty        *)
(* sequence).  TLC's integers are 32 bits wide; the products of the        *)
(* walking formula are not.                                                *)
(***************************************************************************)
Base == 10^4

RECURSIVE BNorm(_)
BNorm(a) ==
    IF a = <<>> THEN <<>>
    ELSE IF a[Len(a)] = 0 THEN BNorm(SubSeq(a, 1, Len(a) - 1))
    ELSE a

RECURSIVE BNat(_)
BNat(n) == IF n = 0 THEN <<>> ELSE <<n % Base>> \o BNat(n \div Base)

Limb(a, i) == IF i <= Len(a) THEN a[i] ELSE 0

Max(x, y) == IF x >= y THEN x ELSE y

RECURSIVE BAddFrom(_, _, _, _)
BAddFrom(a, b, i, carry) ==
    IF i > Max(Len(a), Len(b))
    THEN (IF carry = 0 THEN <<>> ELSE <<carry>>)
    ELSE LET s == Limb(a, i) + Limb(b, i) + carry
         IN  <<s % Base>> \o BAddFrom(a, b, i + 1, s \div Base)

BAdd(a, b) == BAddFrom(a, b, 1, 0)

\* a - b for a >= b
RECURSIVE BSubFrom(_, _, _, _)
BSubFrom(a, b, i, borrow) ==
    IF i > Len(a) THEN <<>>
    ELSE LET s == Limb(a, i) - Limb(b, i) - borrow
         IN  IF s < 0 THEN <<s + Base>> \o BSubFrom(a, b, i + 1, 1)
             ELSE <<s>> \o BSubFrom(a, b, i + 1, 0)

BSub(a, b) == BNorm(BSubFrom(a, b, 1, 0))

\* -1, 0, 1 as a < b, a = b, a > b
RECURSIVE BCmpFrom(_, _, _)
BCmpFrom(a, b, i) ==
    IF i = 0 THEN 0
    ELSE IF a[i] < b[i] THEN -1
    ELSE IF a[i] > b[i] THEN 1
    ELSE BCmpFrom(a, b, i - 1)

BCmp(a, b) ==
    IF Len(a) < Len(b) THEN -1
    ELSE IF Len(a) > Len(b) THEN 1
    ELSE BCmpFrom(a, b, Len(a))

\* a * k for a limb k (0 <= k < Base)
RECURSIVE BMulLimbFrom(_, _, _, _)
BMulLimbFrom(a, k, i, carry) ==
    IF i > Len(a)
    THEN (IF carry = 0 THEN <<>> ELSE <<carry>>)
    ELSE LET p == a[i] * k + carry
         IN  <<p % Base>> \o BMulLimbFrom(a, k, i + 1, p \div Base)

BMulLimb(a, k) == IF k = 0 THEN <<>> ELSE BMulLimbFrom(a, k, 1, 0)

RECURSIVE BMul(_, _)
BMul(a, b) ==
    IF a = <<>> \/ b = <<>> THEN <<>>
    ELSE LET rest == BMul(a, Tail(b))
         IN  BAdd(BMulLimb(a, b[1]), IF rest = <<>> THEN <<>> ELSE <<0>> \o rest)

\* The largest k in 0..9 with d * (k * scale) <= r
DigitOf(r, d, scale) ==
    Cardinality({k \in 1..9 : BCmp(BMulLimb(d, k * scale), r) <= 0})

\* <<r div d, r mod d>> for d > 0 and r < d * Base: one limb of a quotient,
\* found one decimal digit at a time, from the digit of weight scale down
RECURSIVE QDigits(_, _, _, _)
RECURSIVE QTake(_, _, _, _, _)
QDigits(r, d, scale, q) ==
    IF scale = 0 THEN <<q, r>>
    ELSE QTake(r, d, scale, q, DigitOf(r, d, scale))

QTake(r, d, scale, q, k) ==
    IF k = 0 THEN QDigits(r, d, scale \div 10, q)
    ELSE QDigits(BSub(r, BMulLimb(d, k * scale)), d, scale \div 10, q + k * scale)

QLimb(r, d) == QDigits(r, d, 1000, 0)

\* the quotient q of the limbs above with the limb below them put under it
PutLimb(q, ql) == <<(<<ql[1]>> \o q), ql[2]>>

\* one step of the long division: qr is <<quotient, remainder>> of the limbs
\* above limb
DivStep(qr, limb, d) ==
    IF qr[2] = <<>> /\ limb = 0 THEN <<(<<0>> \o qr[1]), (<<>>)>>
    ELSE PutLimb(qr[1], QLimb(BNorm(<<limb>> \o qr[2]), d))

\* Long division of the limbs n[i..Len(n)], the most significant first
RECURSIVE BDivFrom(_, _, _)
BDivFrom(n, d, i) ==
    IF i > Len(n) THEN <<(<<>>), (<<>>)>>
    ELSE DivStep(BDivFrom(n, d, i + 1), n[i], d)

NormQuotient(qr) == <<BNorm(qr[1]), qr[2]>>

\* <<n div d, n mod d>> for d > 0
BDivMod(n, d) == NormQuotient(BDivFrom(n, d, 1))

BIsOdd(a) == a # <<>> /\ a[1] % 2 = 1

(***************************************************************************)
(* Non-negative rationals [n, d], d > 0, not reduced.                      *)
(***************************************************************************)
Rat(num, den) == [n |-> BNat(num), d |-> BNat(den)]

RMul(x, y) == [n |-> BMul(x.n, y.n), d |-> BMul(x.d, y.d)]

RAdd(x, y) ==
    [n |-> BAdd(BMul(x.n, y.d), BMul(y.n, x.d)), d |-> BMul(x.d, y.d)]

RIsZero(x) == x.n = <<>>

\* x / y for y # 0; the callers raise ZeroDivisionError before they divide
RDiv(x, y) == [n |-> BMul(x.n, y.d), d |-> BMul(x.d, y.n)]

\* A number of the input (the readings are naturals) as a rational
Num(k) == Rat(k, 1)

(***************************************************************************)
(* The '.3f' conversion of str.format: the thousandths nearest to x, ties  *)
(* to even, written in decimal with exactly three fractional digits.       *)
(***************************************************************************)
\* q, or q + 1, as the remainder is below or above half the divisor (twice is
\* the comparison of twice the remainder with the divisor); a tie goes to even
RoundHalfEven(q, twice) ==
    IF twice > 0 \/ (twice = 0 /\ BIsOdd(q)) THEN BAdd(q, <<1>>) ELSE q

RoundQuotient(qr, d) == RoundHalfEven(qr[1], BCmp(BAdd(qr[2], qr[2]), d))

\* round-half-even(x * 1000) as a natural
Thousandths(x) == RoundQuotient(BDivMod(BMul(x.n, BNat(1000)), x.d), x.d)

LimbDigits(l) == <<l % 10, (l \div 10) % 10, (l \div 100) % 10, l \div 1000>>

\* the decimal digits of a, least significant first, in groups of four
RECURSIVE BDigits(_)
BDigits(a) == IF a = <<>> THEN <<>> ELSE LimbDigits(a[1]) \o BDigits(Tail(a))

\* without leading zeros, but never fewer than one integer digit and three
\* fractional digits
RECURSIVE StripZeros(_)
StripZeros(ds) ==
    IF Len(ds) < 4 THEN StripZeros(ds \o <<0>>)
    ELSE IF Len(ds) > 4 /\ ds[Len(ds)] = 0 THEN StripZeros(SubSeq(ds, 1, Len(ds) - 1))
    ELSE ds

RECURSIVE DigitStr(_, _)
DigitStr(ds, i) ==
    IF i = 0 THEN ""
    ELSE ToString(ds[i]) \o (IF i = 4 THEN "." ELSE "") \o DigitStr(ds, i - 1)

Written(ds) == DigitStr(ds, Len(ds))

Format3f(x) == Written(StripZeros(BDigits(Thousandths(x))))

(***************************************************************************)
(* Results of a call: a returned value or a raised exception.              *)
(***************************************************************************)
Ret(v) == [exc |-> "none", val |-> v]

Raise(e) == [exc |-> e]

Raised(r) == r.exc # "none"

\* Python's true division: x / y
Div(x, y) == IF RIsZero(y) THEN Raise("ZeroDivisionError") ELSE Ret(RDiv(x, y))

None == [cls |-> "NoneType"]

(***************************************************************************)
(* class InfoMessage                                                       *)
(***************************************************************************)
InfoMessage(training_type, duration, distance, speed, calories) ==
    [training_type |-> training_type, duration |-> duration,
     distance |-> distance, speed |-> speed, calories |-> calories]

\* The line of InfoMessage.message with its five fields filled in.  The fixed
\* text between the fields is the same in every line and is left out: the
\* line is the sequence of the five rendered fields.
get_message(self) ==
    <<self.training_type,
      Format3f(Num(self.duration)),
      Format3f(self.distance),
      Format3f(self.speed),
      Format3f(self.calories)>>

(***************************************************************************)
(* class Training and its subclasses.  An object is a record of its class  *)
(* name and its attributes.                                                *)
(***************************************************************************)
M_IN_KM == Rat(1000, 1)
M_IN_H == Rat(60, 1)

\* the class attribute LEN_STEP as looked up from an instance of cls
LEN_STEP(cls) == IF cls = "Swimming" THEN Rat(138, 100) ELSE Rat(65, 100)

Running_CALORIES_MEAN_SPEED_MULTIPLIER == Rat(18, 1)
Running_CALORIES_MEAN_SPEED_SHIFT == Rat(179, 100)

SportsWalking_CALORIES_MEAN_SPEED == Rat(35, 1000)
SportsWalking_CALORIES_WEIGHT_MULTIPLIER == Rat(29, 1000)
KMH_TO_MS == Rat(278, 1000)
H_TO_M == Rat(100, 1)

Swimming_CALORIES_MEAN_SPEED == Rat(11, 10)
Swimming_CALORIES_WEIGHT_MULTIPLIER == Rat(2, 1)

Training_init(cls, action, duration, weight) ==
    [cls |-> cls, action |-> action, duration |-> duration, weight |-> weight]

SportsWalking_init(action, duration, weight, height) ==
    [cls |-> "SportsWalking", action |-> action, duration |-> duration,
     weight |-> weight, height |-> height]

\* Faulty variant of Swimming_init: the last two parameters are stored in
\* each other's attribute.  C2 fails with it.
Swimming_init_swapped(action, duration, weight, length_pool, count_pool) ==
    [cls |-> "Swimming", action |-> action, duration |-> duration,
     weight |-> weight, length_pool |-> count_pool, count_pool |-> length_pool]

Swimming_init(action, duration, weight, length_pool, count_pool) ==
    [cls |-> "Swimming", action |-> action, duration |-> duration,
     weight |-> weight, length_pool |-> length_pool, count_pool |-> count_pool]

\* the number of positional parameters of cls.__init__ after self
Arity(cls) ==
    CASE cls = "Training" -> 3
      [] cls = "Running" -> 3
      [] cls = "SportsWalking" -> 4
      [] cls = "Swimming" -> 5

\* Faulty variant of New: values beyond the parameters are dropped instead of
\* refused.  C8 fails with it.
New_lenient(cls, data) ==
    IF Len(data) < Arity(cls) THEN Raise("TypeError")
    ELSE CASE cls = "SportsWalking" ->
                Ret(SportsWalking_init(data[1], data[2], data[3], data[4]))
           [] cls = "Swimming" ->
                Ret(Swimming_init(data[1], data[2], data[3], data[4], data[5]))
           [] OTHER ->
                Ret(Training_init(cls, data[1], data[2], data[3]))

\* the call cls(*data): binding the values to the parameters by position
\* fails with TypeError unless there is exactly one value per parameter
New(cls, data) ==
    IF Len(data) # Arity(cls) THEN Raise("TypeError")
    ELSE CASE cls = "SportsWalking" ->
                Ret(SportsWalking_init(data[1], data[2], data[3], data[4]))
           [] cls = "Swimming" ->
                Ret(Swimming_init(data[1], data[2], data[3], data[4], data[5]))
           [] OTHER ->
                Ret(Training_init(cls, data[1], data[2], data[3]))

\* the divisor is the class constant M_IN_KM, which is not zero
get_distance(self) ==
    Ret(RDiv(RMul(Num(self.action), LEN_STEP(self.cls)), M_IN_KM))

\* r / y for the result r of a call: an exception raised by the call goes on
DivResult(r, y) == IF Raised(r) THEN r ELSE Div(r.val, y)

\* Faulty variant of Training_get_mean_speed: a duration of zero gives the
\* speed zero instead of the division.  C9 fails with it.
Training_get_mean_speed_guarded(self) ==
    IF self.duration = 0 THEN Ret(Rat(0, 1))
    ELSE DivResult(get_distance(self), Num(self.duration))

Training_get_mean_speed(self) ==
    DivResult(get_distance(self), Num(self.duration))

\* Faulty variant of Swimming_get_mean_speed: the method of Training is not
\* overridden.  C10 fails with it.
Swimming_get_mean_speed_inherited(self) ==
    DivResult(get_distance(self), Num(self.duration))

Swimming_get_mean_speed(self) ==
    Div(RDiv(RMul(Num(self.length_pool), Num(self.count_pool)), M_IN_KM),
        Num(self.duration))

get_mean_speed(self) ==
    IF self.cls = "Swimming" THEN Swimming_get_mean_speed(self)
    ELSE Training_get_mean_speed(self)

Training_get_spent_calories(self) == Raise("NotImplementedError")

\* Faulty variant of Running_calories: the hours are not turned into minutes.
\* C3 fails with it.
Running_calories_in_hours(self, speed) ==
    IF Raised(speed) THEN speed
    ELSE Ret(RMul(RDiv(RMul(RAdd(RMul(Running_CALORIES_MEAN_SPEED_MULTIPLIER,
                                     speed.val),
                                Running_CALORIES_MEAN_SPEED_SHIFT),
                           Num(self.weight)),
                      M_IN_KM),
                  Num(self.duration)))

\* the expression of Running.get_spent_calories, given what
\* self.get_mean_speed() did
Running_calories(self, speed) ==
    IF Raised(speed) THEN speed
    ELSE Ret(RMul(RMul(RDiv(RMul(RAdd(RMul(Running_CALORIES_MEAN_SPEED_MULTIPLIER,
                                          speed.val),
                                     Running_CALORIES_MEAN_SPEED_SHIFT),
                                Num(self.weight)),
                           M_IN_KM),
                      Num(self.duration)),
                  M_IN_H))

Running_get_spent_calories(self) ==
    Running_calories(self, get_mean_speed(self))

\* x ** 2
Squared(x) == RMul(x, x)

\* the expression of SportsWalking.get_spent_calories, given what
\* self.get_mean_speed() did and what the division by (height / H_TO_M) did
SportsWalking_sum(self, ratio) ==
    IF Raised(ratio) THEN ratio
    ELSE Ret(RMul(RMul(RAdd(RMul(SportsWalking_CALORIES_MEAN_SPEED,
                                 Num(self.weight)),
                            RMul(RMul(ratio.val,
                                      SportsWalking_CALORIES_WEIGHT_MULTIPLIER),
                                 Num(self.weight))),
                       M_IN_H),
                  Num(self.duration)))

\* Faulty variant of SportsWalking_calories: the speed is squared in km/h, not
\* in m/s.  C4 fails with it.
SportsWalking_calories_in_kmh(self, speed) ==
    IF Raised(speed) THEN speed
    ELSE SportsWalking_sum(self,
                           Div(Squared(speed.val),
                               RDiv(Num(self.height), H_TO_M)))

SportsWalking_calories(self, speed) ==
    IF Raised(speed) THEN speed
    ELSE SportsWalking_sum(self,
                           Div(Squared(RMul(speed.val, KMH_TO_MS)),
                               RDiv(Num(self.height), H_TO_M)))

SportsWalking_get_spent_calories(self) ==
    SportsWalking_calories(self, get_mean_speed(self))

\* Faulty variant of Swimming_calories: the shift is multiplied instead of
\* added.  C5 fails with it.
Swimming_calories_scaled(self, speed) ==
    IF Raised(speed) THEN speed
    ELSE Ret(RMul(RMul(RMul(RMul(speed.val, Swimming_CALORIES_MEAN_SPEED),
                            Swimming_CALORIES_WEIGHT_MULTIPLIER),
                       Num(self.weight)),
                  Num(self.duration)))

\* the expression of Swimming.get_spent_calories, given what
\* self.get_mean_speed() did
Swimming_calories(self, speed) ==
    IF Raised(speed) THEN speed
    ELSE Ret(RMul(RMul(RMul(RAdd(speed.val, Swimming_CALORIES_MEAN_SPEED),
                            Swimming_CALORIES_WEIGHT_MULTIPLIER),
                       Num(self.weight)),
                  Num(self.duration)))

Swimming_get_spent_calories(self) ==
    Swimming_calories(self, get_mean_speed(self))

get_spent_calories(self) ==
    CASE self.cls = "Running" -> Running_get_spent_calories(self)
      [] self.cls = "SportsWalking" -> SportsWalking_get_spent_calories(self)
      [] self.cls = "Swimming" -> Swimming_get_spent_calories(self)
      [] OTHER -> Training_get_spent_calories(self)

\* InfoMessage(...) given what the calls among its arguments did: they are
\* evaluated left to right and the first that raises ends the evaluation
InfoMessageOf(self, distance, speed, calories) ==
    IF Raised(distance) THEN distance
    ELSE IF Raised(speed) THEN speed
    ELSE IF Raised(calories) THEN calories
    ELSE Ret(InfoMessage(self.cls, self.duration,
                         distance.val, speed.val, calories.val))

show_training_info(self) ==
    InfoMessageOf(self, get_distance(self), get_mean_speed(self),
                  get_spent_calories(self))

\* Faulty variant of workout: RUN is mapped to the base class.  C7 fails with
\* it.
workout_base == [SWM |-> "Swimming", RUN |-> "Training", WLK |-> "SportsWalking"]

workout == [SWM |-> "Swimming", RUN |-> "Running", WLK |-> "SportsWalking"]

\* Faulty variant of read_package: an unknown code falls back to Running
\* instead of raising.  C1 fails with it.
read_package_fallback(workout_type, data) ==
    IF workout_type \in DOMAIN workout
    THEN New(workout[workout_type], data)
    ELSE New("Running", data)

read_package(workout_type, data) ==
    IF workout_type \in DOMAIN workout
    THEN New(workout[workout_type], data)
    ELSE Raise("ValueError")

(***************************************************************************)
(* The inputs.                                                             *)
(***************************************************************************)
\* the longest list of packages the entry point is run on
MaxPackages == 3
\* the longest list of raw values of a package (Swimming takes five)
MaxValues == 6

\* the three codes of the tracker, and codes it does not know
Codes == {"SWM", "RUN", "WLK", "XYZ", "run"}

\* the values drawn for the k-th raw value of a package
ValuesAt(k) ==
    CASE k = 1 -> {0, 720, 9000, 15000}
      [] k = 2 -> {0, 1, 2}
      [] k = 3 -> {75, 80}
      [] k = 4 -> {0, 25, 180}
      [] k = 5 -> {40}
      [] OTHER -> {1}

\* every list of len raw values
RECURSIVE DataOfLen(_)
DataOfLen(len) ==
    IF len = 0 THEN {<<>>}
    ELSE {Append(d, v) : d \in DataOfLen(len - 1), v \in ValuesAt(len)}

\* the lists of raw values: too short, of each arity, and too long
Data == UNION {DataOfLen(len) : len \in 2..MaxValues}

\* the packages a single call of read_package is tried on
Packages == Codes \X Data

\* the packages of the entry point, and a few more, for the lists of several
SamplePackages ==
    {<<"SWM", <<720, 1, 80, 25, 40>>>>,
     <<"RUN", <<15000, 1, 75>>>>,
     <<"WLK", <<9000, 1, 75, 180>>>>,
     <<"RUN", <<15000, 0, 75>>>>,
     <<"WLK", <<9000, 1, 75>>>>,
     <<"XYZ", <<720, 1, 80>>>>}

RECURSIVE ListsOfLen(_)
ListsOfLen(len) ==
    IF len = 0 THEN {<<>>}
    ELSE {Append(l, p) : l \in ListsOfLen(len - 1), p \in SamplePackages}

PackageLists ==
    {<<p>> : p \in Packages} \cup UNION {ListsOfLen(len) : len \in 0..MaxPackages}

Classes == {"Training", "Running", "SportsWalking", "Swimming"}

\* the objects a caller of main() can construct itself
DirectObjects ==
    UNION {{New(cls, d).val : d \in DataOfLen(Arity(cls))} : cls \in Classes}

(***************************************************************************)
(* The program: the loop of the entry point over packages,                 *)
(*     training = read_package(workout_type, data); main(training)         *)
(* and main(training) called on an object its caller constructed.  An      *)
(* exception nobody catches ends the program.                              *)
(***************************************************************************)
VARIABLES
    packages,   \* the list the entry point runs over (empty for a direct call)
    caller,     \* "__main__": the loop; "direct": main() on a constructed object
    pos,        \* the index of the package of the current iteration
    pc,         \* the call the program is at, "done" or "failed"
    training,   \* the variable training
    info,       \* the variable info of main()
    stdout,     \* the lines printed so far
    error,      \* the exception that ended the program, or "none"
    nobjects    \* how many Training objects read_package has returned

vars == <<packages, caller, pos, pc, training, info, stdout, error, nobjects>>

\* what holds before the first call, whoever calls
InitCommon ==
    /\ info = None
    /\ stdout = <<>>
    /\ error = "none"
    /\ nobjects = 0

InitLoop ==
    /\ packages \in PackageLists
    /\ caller = "__main__"
    /\ pos = 1
    /\ pc = IF packages = <<>> THEN "done" ELSE "read_package"
    /\ training = None
    /\ InitCommon

InitDirect ==
    /\ packages = <<>>
    /\ caller = "direct"
    /\ pos = 0
    /\ pc = "main"
    /\ training \in DirectObjects
    /\ InitCommon

Init == InitLoop \/ InitDirect

\* training = read_package(workout_type, data), given what the call did
Assign(r) ==
    IF Raised(r)
    THEN /\ pc' = "failed"
         /\ error' = r.exc
         /\ UNCHANGED <<training, nobjects>>
    ELSE /\ pc' = "main"
         /\ training' = r.val
         /\ nobjects' = nobjects + 1
         /\ UNCHANGED error

ReadPackage ==
    /\ pc = "read_package"
    /\ Assign(read_package(packages[pos][1], packages[pos][2]))
    /\ UNCHANGED <<packages, caller, pos, info, stdout>>

\* main(training): info = training.show_training_info(), given what the call
\* did
AssignInfo(r) ==
    IF Raised(r)
    THEN /\ pc' = "failed"
         /\ error' = r.exc
         /\ UNCHANGED info
    ELSE /\ pc' = "print"
         /\ info' = r.val
         /\ UNCHANGED error

\* main(training): info = training.show_training_info()
ShowTrainingInfo ==
    /\ pc = "main"
    /\ AssignInfo(show_training_info(training))
    /\ UNCHANGED <<packages, caller, pos, training, stdout, nobjects>>

\* Faulty variant of PrintMessage: the line is put before the lines printed so
\* far.  C6 fails with it.
PrintMessage_prepend ==
    /\ pc = "print"
    /\ stdout' = <<get_message(info)>> \o stdout
    /\ info' = None
    /\ IF caller = "__main__"
       THEN /\ pos' = pos + 1
            /\ pc' = IF pos + 1 > Len(packages) THEN "done" ELSE "read_package"
       ELSE /\ pos' = pos
            /\ pc' = "done"
    /\ UNCHANGED <<packages, caller, training, error, nobjects>>

\* main(training): print(info.get_message()), the return of main() and the
\* step of the loop to the next package
PrintMessage ==
    /\ pc = "print"
    /\ stdout' = Append(stdout, get_message(info))
    /\ info' = None
    /\ IF caller = "__main__"
       THEN /\ pos' = pos + 1
            /\ pc' = IF pos + 1 > Len(packages) THEN "done" ELSE "read_package"
       ELSE /\ pos' = pos
            /\ pc' = "done"
    /\ UNCHANGED <<packages, caller, training, error, nobjects>>

Next == ReadPackage \/ ShowTrainingInfo \/ PrintMessage

Spec == Init /\ [][Next]_vars

(***************************************************************************)
(* The properties.  What the specification says of codes, arities and      *)
(* labels is written here on its own, not taken from the definitions       *)
(* above.                                                                  *)
(***************************************************************************)
\* two rationals are the same number
REq(x, y) == BMul(x.n, y.d) = BMul(y.n, x.d)

KnownCodes == {"SWM", "RUN", "WLK"}

ArityOfCode(code) ==
    CASE code = "RUN" -> 3
      [] code = "WLK" -> 4
      [] code = "SWM" -> 5

LabelOfCode(code) ==
    CASE code = "RUN" -> "Running"
      [] code = "WLK" -> "SportsWalking"
      [] code = "SWM" -> "Swimming"

ExpectedObject(code, data) ==
    CASE code = "RUN" ->
            [cls |-> "Running", action |-> data[1], duration |-> data[2],
             weight |-> data[3]]
      [] code = "WLK" ->
            [cls |-> "SportsWalking", action |-> data[1], duration |-> data[2],
             weight |-> data[3], height |-> data[4]]
      [] code = "SWM" ->
            [cls |-> "Swimming", action |-> data[1], duration |-> data[2],
             weight |-> data[3], length_pool |-> data[4], count_pool |-> data[5]]

InLoop == caller = "__main__"

\* the loop is at its i-th package and read_package has been called on it
ReadDone(i) == InLoop /\ pos = i /\ pc # "read_package"

\* the loop is at package p, which main() has turned into an InfoMessage
Shown(p) ==
    /\ InLoop
    /\ pos \in 1..Len(packages)
    /\ packages[pos] = p
    /\ pc = "print"

\* C1: a package whose code is none of SWM, RUN, WLK ends the program with
\* the invalid-code error (ValueError) whatever its raw values: read_package
\* returns no object for it, no InfoMessage is built, and neither it nor any
\* later package gets a line.
C1_InvalidCodeRejected ==
    InLoop =>
        \A i \in 1..Len(packages) :
            packages[i][1] \notin KnownCodes =>
                /\ pos <= i
                /\ nobjects < i
                /\ Len(stdout) < i
                /\ ReadDone(i) =>
                      /\ pc = "failed"
                      /\ error = "ValueError"
                      /\ info = None
                      /\ nobjects = i - 1
                      /\ Len(stdout) = i - 1
                      /\ (i = 1 => training = None)

\* C1 witness: the second package has the code XYZ; the first was reported,
\* and the program has ended with ValueError.
C1_Witness ==
    /\ InLoop
    /\ pos = 2
    /\ Len(packages) >= 2
    /\ packages[2][1] = "XYZ"
    /\ pc = "failed"
    /\ error = "ValueError"
    /\ Len(stdout) = 1

\* C2: for a known code and a list of as many values as the variant takes,
\* read_package returns the matching variant with the i-th value in the i-th
\* field, and the label of the InfoMessage and of the printed line is the
\* name of that variant.
C2_PositionalConstruction ==
    InLoop =>
        /\ \A i \in 1..Len(packages) :
              ( /\ ReadDone(i)
                /\ packages[i][1] \in KnownCodes
                /\ Len(packages[i][2]) = ArityOfCode(packages[i][1]) ) =>
                    /\ training = ExpectedObject(packages[i][1], packages[i][2])
                    /\ nobjects = i
                    /\ error \notin {"ValueError", "TypeError"}
                    /\ pc = "print" => info.training_type = LabelOfCode(packages[i][1])
        /\ \A i \in 1..Len(stdout) : stdout[i][1] = LabelOfCode(packages[i][1])

\* C2 witness: the Swimming package of the entry point has been constructed
\* and shown.
C2_Witness ==
    /\ Shown(<<"SWM", <<720, 1, 80, 25, 40>>>>)
    /\ training.length_pool = 25
    /\ training.count_pool = 40

RunningExample == <<"RUN", <<15000, 1, 75>>>>

\* (18 x 9.75 + 1.79) x 75 / 1000 x 1 x 60
RunningExampleCalories ==
    RMul(RMul(RDiv(RMul(RAdd(RMul(Rat(18, 1), Rat(975, 100)), Rat(179, 100)),
                        Rat(75, 1)),
                   Rat(1000, 1)),
              Rat(1, 1)),
         Rat(60, 1))

\* what C3 says of the Running example, with the calories rendered as text
RunningExampleIs(text) ==
    /\ \A i \in 1..Len(packages) :
          (ReadDone(i) /\ packages[i] = RunningExample) => pc \in {"main", "print"}
    /\ Shown(RunningExample) =>
          /\ REq(info.distance, Rat(9750, 1000))
          /\ REq(info.speed, Rat(9750, 1000))
          /\ REq(info.calories, RunningExampleCalories)
          /\ get_message(info) = <<"Running", "1.000", "9.750", "9.750", text>>
    /\ InLoop =>
          \A i \in 1..Len(stdout) :
              packages[i] = RunningExample =>
                  stdout[i] = <<"Running", "1.000", "9.750", "9.750", text>>

\* C3 as claimed: for Running with action 15000, duration 1, weight 75 the
\* distance and the mean speed are 9.750 and the calories, which are
\* (18 x 9.75 + 1.79) x 75 / 1000 x 1 x 60, are rendered as 827.633.
C3_RunningExampleAsClaimed == RunningExampleIs("827.633")

\* C3 amended: the same reading has distance 9.750, mean speed 9.750 and
\* calories (18 x 9.75 + 1.79) x 75 / 1000 x 1 x 60, which is 797.805 and is
\* rendered as 797.805.
C3_RunningExample == RunningExampleIs("797.805")

\* C3 witness: the Running example has been printed as the second line.
C3_Witness ==
    /\ InLoop
    /\ Len(stdout) >= 2
    /\ packages[2] = RunningExample
    /\ stdout[2][5] = "797.805"

WalkingExample == <<"WLK", <<9000, 1, 75, 180>>>>

\* ((0.035 x 75) + ((5.85 x 0.278)^2 / (180 / 100)) x 0.029 x 75) x 60 x 1
WalkingExampleCalories ==
    RMul(RMul(RAdd(RMul(Rat(35, 1000), Rat(75, 1)),
                   RMul(RMul(RDiv(RMul(RMul(Rat(585, 100), Rat(278, 1000)),
                                       RMul(Rat(585, 100), Rat(278, 1000))),
                                  RDiv(Rat(180, 1), Rat(100, 1))),
                             Rat(29, 1000)),
                        Rat(75, 1))),
              Rat(60, 1)),
         Rat(1, 1))

\* what C4 says of the SportsWalking example, with the calories rendered as
\* text
WalkingExampleIs(text) ==
    /\ \A i \in 1..Len(packages) :
          (ReadDone(i) /\ packages[i] = WalkingExample) => pc \in {"main", "print"}
    /\ Shown(WalkingExample) =>
          /\ REq(info.distance, Rat(5850, 1000))
          /\ REq(info.speed, Rat(5850, 1000))
          /\ REq(info.calories, WalkingExampleCalories)
          /\ get_message(info) = <<"SportsWalking", "1.000", "5.850", "5.850", text>>
    /\ InLoop =>
          \A i \in 1..Len(stdout) :
              packages[i] = WalkingExample =>
                  stdout[i] = <<"SportsWalking", "1.000", "5.850", "5.850", text>>

\* C4 as claimed: for SportsWalking with action 9000, duration 1, weight 75,
\* height 180 the distance and the mean speed are 5.850 and the calories of
\* the walking formula are rendered as 163.512.
C4_WalkingExampleAsClaimed == WalkingExampleIs("163.512")

\* C4 amended: the same reading has distance 5.850, mean speed 5.850 and the
\* calories of the walking formula, which are rendered as 349.252.
C4_WalkingExample == WalkingExampleIs("349.252")

\* C4 witness: the SportsWalking example has been printed as the third line.
C4_Witness ==
    /\ InLoop
    /\ Len(stdout) >= 3
    /\ packages[3] = WalkingExample
    /\ stdout[3][5] = "349.252"

SwimmingExample == <<"SWM", <<720, 1, 80, 25, 40>>>>

\* C5: for Swimming with action 720, duration 1, weight 80, pool length 25
\* and 40 laps the mean speed is 25 x 40 / 1000 / 1 = 1.000 and the calories
\* are (1.0 + 1.1) x 2.0 x 80 x 1 = 336.000.
C5_SwimmingExample ==
    /\ \A i \in 1..Len(packages) :
          (ReadDone(i) /\ packages[i] = SwimmingExample) => pc \in {"main", "print"}
    /\ Shown(SwimmingExample) =>
          /\ REq(info.speed, RDiv(RDiv(RMul(Rat(25, 1), Rat(40, 1)), Rat(1000, 1)),
                                  Rat(1, 1)))
          /\ REq(info.speed, Rat(1, 1))
          /\ REq(info.calories,
                 RMul(RMul(RMul(RAdd(Rat(1, 1), Rat(11, 10)), Rat(2, 1)), Rat(80, 1)),
                      Rat(1, 1)))
          /\ REq(info.calories, Rat(336, 1))
          /\ Format3f(info.speed) = "1.000"
          /\ Format3f(info.calories) = "336.000"
    /\ InLoop =>
          \A i \in 1..Len(stdout) :
              packages[i] = SwimmingExample =>
                  stdout[i][4] = "1.000" /\ stdout[i][5] = "336.000"

\* C5 witness: the Swimming example has been printed as the first line.
C5_Witness ==
    /\ InLoop
    /\ Len(stdout) >= 1
    /\ packages[1] = SwimmingExample
    /\ stdout[1] = <<"Swimming", "1.000", "0.994", "1.000", "336.000">>

\* a package the program can report: a known code, as many values as the
\* variant takes, a duration other than zero and, for walking, a height other
\* than zero
ValidPackage(p) ==
    /\ p[1] \in KnownCodes
    /\ Len(p[2]) = ArityOfCode(p[1])
    /\ p[2][2] # 0
    /\ p[1] = "WLK" => p[2][4] # 0

\* the line of a valid package
ReportOf(p) == get_message(show_training_info(read_package(p[1], p[2]).val).val)

\* C6: on a list of valid packages the loop never fails and prints one line
\* per package, in the order of the list: the i-th line is the report of the
\* i-th package, the lines so far are those of the packages before the
\* current one, and at the end there are as many lines as packages.
C6_OneLinePerPackageInOrder ==
    (InLoop /\ \A i \in 1..Len(packages) : ValidPackage(packages[i])) =>
        /\ pc # "failed"
        /\ error = "none"
        /\ pos \in 1..Len(packages) + 1
        /\ Len(stdout) = pos - 1
        /\ \A i \in 1..Len(stdout) : stdout[i] = ReportOf(packages[i])
        /\ pc = "done" <=> pos = Len(packages) + 1

\* C6 witness: the list of the entry point has been run to its end.
C6_Witness ==
    /\ InLoop
    /\ packages = <<SwimmingExample, RunningExample, WalkingExample>>
    /\ pc = "done"
    /\ Len(stdout) = 3

\* C7: an object that read_package returned is one of the three variants,
\* each with its own get_spent_calories, so the loop never ends with the
\* unimplemented failure; the program ends with it only when main() is
\* called on a base Training constructed directly, and then (with a duration
\* other than zero) it always does.
C7_UnimplementedUnreachableByDispatcher ==
    /\ InLoop =>
          /\ error # "NotImplementedError"
          /\ training # None =>
                /\ training.cls \in {"Running", "SportsWalking", "Swimming"}
                /\ get_spent_calories(training) # Raise("NotImplementedError")
    /\ error = "NotImplementedError" =>
          /\ ~InLoop
          /\ training.cls = "Training"
          /\ pc = "failed"
    /\ (~InLoop /\ training.cls = "Training" /\ training.duration # 0 /\ pc # "main") =>
          /\ pc = "failed"
          /\ error = "NotImplementedError"
          /\ stdout = <<>>

\* C7 witness: show_training_info has returned for an object that
\* read_package constructed.
C7_Witness ==
    /\ InLoop
    /\ pc = "print"
    /\ nobjects = 1
    /\ training.cls = "Running"
    /\ info # None

\* C7, the other case: main() on a base Training has ended the program with
\* the unimplemented failure.
C7_BaseFailureNotReached == error # "NotImplementedError"

\* C8: a known code with more or fewer values than the variant takes ends the
\* program with the construction failure (TypeError), not with the
\* invalid-code error: read_package returns no object for it, no InfoMessage
\* is built, and neither it nor any later package gets a line.
C8_ArityMismatchFails ==
    InLoop =>
        \A i \in 1..Len(packages) :
            ( /\ packages[i][1] \in KnownCodes
              /\ Len(packages[i][2]) # ArityOfCode(packages[i][1]) ) =>
                /\ pos <= i
                /\ nobjects < i
                /\ Len(stdout) < i
                /\ ReadDone(i) =>
                      /\ pc = "failed"
                      /\ error = "TypeError"
                      /\ error # "ValueError"
                      /\ info = None
                      /\ nobjects = i - 1
                      /\ Len(stdout) = i - 1
                      /\ (i = 1 => training = None)

\* C8 witness: a Running package with four values has ended the program.
C8_Witness ==
    /\ InLoop
    /\ pos = 1
    /\ Len(packages) >= 1
    /\ packages[1][1] = "RUN"
    /\ Len(packages[1][2]) = 4
    /\ pc = "failed"
    /\ error = "TypeError"

\* C9: a duration of zero is accepted at construction (read_package returns
\* the object, for each of the three variants) and get_distance returns a
\* value for it, but get_mean_speed, get_spent_calories and
\* show_training_info raise ZeroDivisionError, so that no InfoMessage is built
\* and no line is printed for it.
C9_ZeroDurationFails ==
    /\ InLoop =>
          \A i \in 1..Len(packages) :
              ( /\ packages[i][1] \in KnownCodes
                /\ Len(packages[i][2]) = ArityOfCode(packages[i][1])
                /\ packages[i][2][2] = 0 ) =>
                  /\ pos <= i
                  /\ Len(stdout) < i
                  /\ ReadDone(i) =>
                        /\ nobjects = i
                        /\ training = ExpectedObject(packages[i][1], packages[i][2])
                        /\ pc \in {"main", "failed"}
    /\ (training # None /\ training.duration = 0) =>
          /\ ~Raised(get_distance(training))
          /\ get_mean_speed(training) = Raise("ZeroDivisionError")
          /\ get_spent_calories(training) = Raise("ZeroDivisionError")
             \/ training.cls = "Training"
          /\ show_training_info(training) = Raise("ZeroDivisionError")
          /\ pc \in {"main", "failed"}
          /\ info = None
          /\ pc = "failed" => error = "ZeroDivisionError"
          /\ ~InLoop => stdout = <<>>

\* C9 witness: a Swimming package with duration zero has ended the program.
C9_Witness ==
    /\ InLoop
    /\ pos = 1
    /\ training # None
    /\ training.cls = "Swimming"
    /\ training.duration = 0
    /\ pc = "failed"
    /\ error = "ZeroDivisionError"

\* the InfoMessage of the object self with its action count replaced
InfoWithAction(self, action) ==
    show_training_info([self EXCEPT !.action = action]).val

\* C10: the mean speed and the calories of Swimming do not depend on the
\* action count (any other count gives the same two values) while its
\* distance is action x 1.38 / 1000; for Running and SportsWalking the
\* distance is action x 0.65 / 1000 and the mean speed is distance / duration.
C10_SwimmingSpeedIgnoresAction ==
    pc = "print" =>
        /\ training.cls = "Swimming" =>
              /\ \A a \in ValuesAt(1) :
                    /\ REq(InfoWithAction(training, a).speed, info.speed)
                    /\ REq(InfoWithAction(training, a).calories, info.calories)
                    /\ REq(InfoWithAction(training, a).distance,
                           RDiv(RMul(Num(a), Rat(138, 100)), Rat(1000, 1)))
              /\ REq(info.distance,
                     RDiv(RMul(Num(training.action), Rat(138, 100)), Rat(1000, 1)))
              /\ REq(info.speed,
                     RDiv(RDiv(RMul(Num(training.length_pool),
                                    Num(training.count_pool)),
                               Rat(1000, 1)),
                          Num(training.duration)))
        /\ training.cls \in {"Running", "SportsWalking"} =>
              /\ REq(info.distance,
                     RDiv(RMul(Num(training.action), Rat(65, 100)), Rat(1000, 1)))
              /\ REq(info.speed, RDiv(info.distance, Num(training.duration)))

\* C10 witness: a Swimming report whose mean speed is not its distance
\* divided by its duration.
C10_Witness ==
    /\ pc = "print"
    /\ training.cls = "Swimming"
    /\ training.action = 720
    /\ ~REq(info.speed, RDiv(info.distance, Num(training.duration)))

====
